---- MODULE Spec2Model ----
(***************************************************************************)
(* Model of buildTextToImageGraph                                          *)
(* (features/nodes/util/graphBuilders/buildTextToImageGraph.ts).           *)
(*                                                                         *)
(* One call of the builder is a straight-line program: it creates a fresh  *)
(* graph, adds the fixed pipeline, runs four `if` blocks that each add the *)
(* nodes and edges of one seed topology, calls addControlNetToLinearGraph  *)
(* and returns the graph.  Each of these statements is one action; the     *)
(* program counter pc names the statement that runs next.                  *)
(***************************************************************************)
EXTENDS Integers, Sequences, FiniteSets, TLC

\* ---------------------------------------------------------------- bounds
MaxIterations == 3
MaxSeed == 1
MaxDim == 2

\* ------------------------------------------------------ node id constants
POSITIVE_CONDITIONING == "positive_conditioning"
NEGATIVE_CONDITIONING == "negative_conditioning"
TEXT_TO_LATENTS == "text_to_latents"
LATENTS_TO_IMAGE == "latents_to_image"
NOISE == "noise"
RANDOM_INT == "rand_int"
RANGE_OF_SIZE == "range_of_size"
ITERATE == "iterate"
\* id of the node the control-net extender appends
CONTROL_NET == "control_net"

\* --------------------------------------------------------- configuration
\* state.generation, plus the one switch of the control-net extender.
\* iterations is a plain number in the store: 0 is a value it can hold.
GenerationStates ==
  [ positivePrompt : {"a cat"},
    negativePrompt : {"blurry"},
    model : {"sd-1.5"},
    cfgScale : {7},
    scheduler : {"euler"},
    steps : {20},
    width : 1..MaxDim,
    height : 1..MaxDim,
    iterations : 0..MaxIterations,
    seed : 0..MaxSeed,
    shouldRandomizeSeed : BOOLEAN,
    controlNetEnabled : BOOLEAN ]

InitialGeneration ==
  [ positivePrompt |-> "a cat", negativePrompt |-> "blurry",
    model |-> "sd-1.5", cfgScale |-> 7, scheduler |-> "euler", steps |-> 20,
    width |-> 1, height |-> 1, iterations |-> 1, seed |-> 0,
    shouldRandomizeSeed |-> FALSE, controlNetEnabled |-> FALSE ]

VARIABLES
  state,    \* the configuration the running (or last) call was given
  graph,    \* the graph object of the running call: [nodes, edges]
  pc,       \* the statement of buildTextToImageGraph that runs next
  result,   \* the value the last finished call returned
  writes,   \* history: keys assigned to graph.nodes by the builder, in order
  fired,    \* history: the seed branches whose body ran in this call
  calls,    \* history: the calls of addControlNetToLinearGraph in this call
  prev      \* history: <<result>> of the preceding call if it had the same
            \*          configuration as this one, else << >>

vars == <<state, graph, pc, result, writes, fired, calls, prev>>

\* ------------------------------------------------------- graph primitives
NoNodes == [k \in {} |-> {}]

\* what result holds while no call has returned yet
NoResult == [nodes |-> NoNodes, edges |-> <<>>]

\* mutant of NewGraph: the graph object outlives the call (module-level state)
NewGraph_shared == [nodes |-> graph.nodes, edges |-> graph.edges, writes |-> <<>>]

\* lines 42-45: const graph = { nodes: {}, edges: [] }
NewGraph == [nodes |-> NoNodes, edges |-> <<>>, writes |-> <<>>]

\* graph.nodes[k] = n  (the assignment is logged in writes)
SetNode(b, k, n) ==
  [b EXCEPT !.nodes = (k :> n) @@ b.nodes, !.writes = Append(b.writes, k)]

\* graph.edges.push({source: {node_id, field}, destination: {node_id, field}})
Edge(sn, sf, dn, df) ==
  [ source |-> [node_id |-> sn, field |-> sf],
    destination |-> [node_id |-> dn, field |-> df] ]

PushEdge(b, e) == [b EXCEPT !.edges = Append(b.edges, e)]

\* ------------------------------------------------------------ fixed nodes
positiveConditioningNode(s) ==
  [id |-> POSITIVE_CONDITIONING, type |-> "compel",
   prompt |-> s.positivePrompt, model |-> s.model]

negativeConditioningNode(s) ==
  [id |-> NEGATIVE_CONDITIONING, type |-> "compel",
   prompt |-> s.negativePrompt, model |-> s.model]

textToLatentsNode(s) ==
  [id |-> TEXT_TO_LATENTS, type |-> "t2l", cfg_scale |-> s.cfgScale,
   model |-> s.model, scheduler |-> s.scheduler, steps |-> s.steps]

latentsToImageNode(s) ==
  [id |-> LATENTS_TO_IMAGE, type |-> "l2i", model |-> s.model]

PosEdge == Edge(POSITIVE_CONDITIONING, "conditioning",
                TEXT_TO_LATENTS, "positive_conditioning")
NegEdge == Edge(NEGATIVE_CONDITIONING, "conditioning",
                TEXT_TO_LATENTS, "negative_conditioning")
LatentsEdge == Edge(TEXT_TO_LATENTS, "latents", LATENTS_TO_IMAGE, "latents")
NoiseEdge == Edge(NOISE, "noise", TEXT_TO_LATENTS, "noise")
RandToNoiseEdge == Edge(RANDOM_INT, "a", NOISE, "seed")
RandToRangeEdge == Edge(RANDOM_INT, "a", RANGE_OF_SIZE, "start")
RangeToIterateEdge == Edge(RANGE_OF_SIZE, "collection", ITERATE, "collection")
IterateToNoiseEdge == Edge(ITERATE, "item", NOISE, "seed")

\* mutant of FixedPipeline: the two conditioning edges pushed in swapped order
FixedPipeline_swapped(b, s) ==
  LET b1 == SetNode(b, POSITIVE_CONDITIONING, positiveConditioningNode(s))
      b2 == SetNode(b1, NEGATIVE_CONDITIONING, negativeConditioningNode(s))
      b3 == SetNode(b2, TEXT_TO_LATENTS, textToLatentsNode(s))
      b4 == SetNode(b3, LATENTS_TO_IMAGE, latentsToImageNode(s))
  IN PushEdge(PushEdge(PushEdge(b4, NegEdge), PosEdge), LatentsEdge)

\* lines 78-106: add the four fixed nodes, then connect them
FixedPipeline(b, s) ==
  LET b1 == SetNode(b, POSITIVE_CONDITIONING, positiveConditioningNode(s))
      b2 == SetNode(b1, NEGATIVE_CONDITIONING, negativeConditioningNode(s))
      b3 == SetNode(b2, TEXT_TO_LATENTS, textToLatentsNode(s))
      b4 == SetNode(b3, LATENTS_TO_IMAGE, latentsToImageNode(s))
  IN PushEdge(PushEdge(PushEdge(b4, PosEdge), NegEdge), LatentsEdge)

\* ------------------------------------------------------------ seed nodes
\* noise node using the explicit seed
noiseNodeWithSeed(s) ==
  [id |-> NOISE, type |-> "noise", seed |-> s.seed,
   width |-> s.width, height |-> s.height]

\* noise node without any seed
noiseNodeNoSeed(s) ==
  [id |-> NOISE, type |-> "noise", width |-> s.width, height |-> s.height]

randomIntNode == [id |-> RANDOM_INT, type |-> "rand_int"]

rangeOfSizeNodeWithStart(s) ==
  [id |-> RANGE_OF_SIZE, type |-> "range_of_size",
   start |-> s.seed, size |-> s.iterations]

rangeOfSizeNodeNoStart(s) ==
  [id |-> RANGE_OF_SIZE, type |-> "range_of_size", size |-> s.iterations]

iterateNode == [id |-> ITERATE, type |-> "iterate"]

\* ------------------------------------------------------------ seed guards
IsSingleExplicit(s) == ~s.shouldRandomizeSeed /\ s.iterations = 1
IsSingleRandom(s) == s.shouldRandomizeSeed /\ s.iterations = 1
IsMultiExplicit(s) == ~s.shouldRandomizeSeed /\ s.iterations > 1
IsMultiRandom(s) == s.shouldRandomizeSeed /\ s.iterations > 1

\* ------------------------------------------------------ seed branch bodies
\* lines 120-138
SingleIterationExplicitSeed(b, s) ==
  PushEdge(SetNode(b, NOISE, noiseNodeWithSeed(s)), NoiseEdge)

\* mutant of SingleIterationRandomSeed: the noise node keeps a literal seed
SingleIterationRandomSeed_literal(b, s) ==
  LET b1 == SetNode(b, RANDOM_INT, randomIntNode)
      b2 == SetNode(b1, NOISE, noiseNodeWithSeed(s))
  IN PushEdge(PushEdge(b2, RandToNoiseEdge), NoiseEdge)

\* lines 143-176
SingleIterationRandomSeed(b, s) ==
  LET b1 == SetNode(b, RANDOM_INT, randomIntNode)
      b2 == SetNode(b1, NOISE, noiseNodeNoSeed(s))
  IN PushEdge(PushEdge(b2, RandToNoiseEdge), NoiseEdge)

\* mutant of MultipleIterationsExplicitSeed: the iterate node is never stored
MultipleIterationsExplicitSeed_noIterate(b, s) ==
  LET b1 == SetNode(b, RANGE_OF_SIZE, rangeOfSizeNodeWithStart(s))
      b3 == SetNode(b1, NOISE, noiseNodeNoSeed(s))
  IN PushEdge(PushEdge(PushEdge(b3, RangeToIterateEdge),
                       IterateToNoiseEdge), NoiseEdge)

\* lines 181-238
MultipleIterationsExplicitSeed(b, s) ==
  LET b1 == SetNode(b, RANGE_OF_SIZE, rangeOfSizeNodeWithStart(s))
      b2 == SetNode(b1, ITERATE, iterateNode)
      b3 == SetNode(b2, NOISE, noiseNodeNoSeed(s))
  IN PushEdge(PushEdge(PushEdge(b3, RangeToIterateEdge),
                       IterateToNoiseEdge), NoiseEdge)

\* mutant of MultipleIterationsRandomSeed: the range also gets start = seed
MultipleIterationsRandomSeed_start(b, s) ==
  LET b1 == SetNode(b, RANDOM_INT, randomIntNode)
      b2 == SetNode(b1, RANGE_OF_SIZE, rangeOfSizeNodeWithStart(s))
      b3 == SetNode(b2, ITERATE, iterateNode)
      b4 == SetNode(b3, NOISE, noiseNodeNoSeed(s))
  IN PushEdge(PushEdge(PushEdge(PushEdge(b4, RandToRangeEdge),
                RangeToIterateEdge), IterateToNoiseEdge), NoiseEdge)

\* lines 243-310
MultipleIterationsRandomSeed(b, s) ==
  LET b1 == SetNode(b, RANDOM_INT, randomIntNode)
      b2 == SetNode(b1, RANGE_OF_SIZE, rangeOfSizeNodeNoStart(s))
      b3 == SetNode(b2, ITERATE, iterateNode)
      b4 == SetNode(b3, NOISE, noiseNodeNoSeed(s))
  IN PushEdge(PushEdge(PushEdge(PushEdge(b4, RandToRangeEdge),
                RangeToIterateEdge), IterateToNoiseEdge), NoiseEdge)

\* ------------------------------------------------------- feature extender
\* addControlNetToLinearGraph(graph, baseNodeId, state): appends one
\* control-net node and its edge into baseNodeId when the feature is on,
\* and does nothing otherwise.  It only appends.
controlNetNode == [id |-> CONTROL_NET, type |-> "controlnet"]

addControlNetToLinearGraph(g, baseNodeId, s) ==
  IF s.controlNetEnabled
    THEN [ nodes |-> (CONTROL_NET :> controlNetNode) @@ g.nodes,
           edges |-> Append(g.edges,
                            Edge(CONTROL_NET, "control", baseNodeId, "control")) ]
    ELSE g

\* ---------------------------------------------------------------- actions
Builder == [nodes |-> graph.nodes, edges |-> graph.edges, writes |-> writes]

Store(b) ==
  /\ graph' = [nodes |-> b.nodes, edges |-> b.edges]
  /\ writes' = b.writes

Init ==
  /\ state = InitialGeneration
  /\ graph = [nodes |-> NoNodes, edges |-> <<>>]
  /\ pc = "idle"
  /\ result = NoResult
  /\ writes = <<>>
  /\ fired = <<>>
  /\ calls = <<>>
  /\ prev = <<>>

\* lines 27-45: the call reads its configuration and makes a fresh graph
Call ==
  /\ pc \in {"idle", "done"}
  /\ \E s \in GenerationStates :
       /\ state' = s
       /\ prev' = IF pc = "done" /\ s = state THEN <<result>> ELSE <<>>
  /\ Store(NewGraph)
  /\ fired' = <<>>
  /\ calls' = <<>>
  /\ result' = NoResult
  /\ pc' = "fixed"

\* lines 47-106
AddFixedPipeline ==
  /\ pc = "fixed"
  /\ Store(FixedPipeline(Builder, state))
  /\ pc' = "singleExplicit"
  /\ UNCHANGED <<state, result, fired, calls, prev>>

\* lines 119-139
IfSingleIterationExplicitSeed ==
  /\ pc = "singleExplicit"
  /\ IF IsSingleExplicit(state)
       THEN /\ Store(SingleIterationExplicitSeed(Builder, state))
            /\ fired' = Append(fired, "singleExplicit")
       ELSE UNCHANGED <<graph, writes, fired>>
  /\ pc' = "singleRandom"
  /\ UNCHANGED <<state, result, calls, prev>>

\* lines 142-177
IfSingleIterationRandomSeed ==
  /\ pc = "singleRandom"
  /\ IF IsSingleRandom(state)
       THEN /\ Store(SingleIterationRandomSeed(Builder, state))
            /\ fired' = Append(fired, "singleRandom")
       ELSE UNCHANGED <<graph, writes, fired>>
  /\ pc' = "multiExplicit"
  /\ UNCHANGED <<state, result, calls, prev>>

\* lines 180-239
IfMultipleIterationsExplicitSeed ==
  /\ pc = "multiExplicit"
  /\ IF IsMultiExplicit(state)
       THEN /\ Store(MultipleIterationsExplicitSeed(Builder, state))
            /\ fired' = Append(fired, "multiExplicit")
       ELSE UNCHANGED <<graph, writes, fired>>
  /\ pc' = "multiRandom"
  /\ UNCHANGED <<state, result, calls, prev>>

\* lines 242-311
IfMultipleIterationsRandomSeed ==
  /\ pc = "multiRandom"
  /\ IF IsMultiRandom(state)
       THEN /\ Store(MultipleIterationsRandomSeed(Builder, state))
            /\ fired' = Append(fired, "multiRandom")
       ELSE UNCHANGED <<graph, writes, fired>>
  /\ pc' = "extend"
  /\ UNCHANGED <<state, result, calls, prev>>

\* mutant of AttachmentPoint: the extender is pointed at the noise node
AttachmentPoint_noise == NOISE

\* the node id handed to the extender as attachment point (line 313)
AttachmentPoint == TEXT_TO_LATENTS

\* line 313: addControlNetToLinearGraph(graph, TEXT_TO_LATENTS, state)
CallAddControlNet ==
  /\ pc = "extend"
  /\ calls' = Append(calls, [graph |-> graph, baseNodeId |-> AttachmentPoint,
                             state |-> state, writes |-> writes])
  /\ graph' = addControlNetToLinearGraph(graph, AttachmentPoint, state)
  /\ pc' = "return"
  /\ UNCHANGED <<state, result, writes, fired, prev>>

\* line 315: return graph
Return ==
  /\ pc = "return"
  /\ result' = graph
  /\ pc' = "done"
  /\ UNCHANGED <<state, graph, writes, fired, calls, prev>>

Next ==
  \/ Call
  \/ AddFixedPipeline
  \/ IfSingleIterationExplicitSeed
  \/ IfSingleIterationRandomSeed
  \/ IfMultipleIterationsExplicitSeed
  \/ IfMultipleIterationsRandomSeed
  \/ CallAddControlNet
  \/ Return

Spec == Init /\ [][Next]_vars

\* ================================================================ claims
\* the graph as the builder left it, before the extender touched it
BaseGraph == calls[1].graph

NodeIds(g) == DOMAIN g.nodes
EdgeIdx(g) == 1..Len(g.edges)
CountEdge(g, e) == Cardinality({i \in EdgeIdx(g) : g.edges[i] = e})
HasEdge(g, e) == CountEdge(g, e) >= 1
\* number of edges whose destination is field f of node n
InDegree(g, n, f) ==
  Cardinality({i \in EdgeIdx(g) :
     g.edges[i].destination = [node_id |-> n, field |-> f]})
HasField(g, n, f) == f \in DOMAIN g.nodes[n]
FixedIds == {POSITIVE_CONDITIONING, NEGATIVE_CONDITIONING,
             TEXT_TO_LATENTS, LATENTS_TO_IMAGE}
GeneratorIds == {RANDOM_INT, RANGE_OF_SIZE, ITERATE}
NoDuplicates(seq) ==
  \A i, j \in 1..Len(seq) : seq[i] = seq[j] => i = j
\* the generator nodes each row of the branch table asks for
RowGenerators(s) ==
  (IF s.shouldRandomizeSeed THEN {RANDOM_INT} ELSE {})
    \cup (IF s.iterations > 1 THEN {RANGE_OF_SIZE, ITERATE} ELSE {})
\* the seed edges each row of the branch table asks for
RowEdges(s) ==
  IF s.iterations > 1
    THEN (IF s.shouldRandomizeSeed THEN {RandToRangeEdge} ELSE {})
           \cup {RangeToIterateEdge, IterateToNoiseEdge, NoiseEdge}
    ELSE (IF s.shouldRandomizeSeed THEN {RandToNoiseEdge} ELSE {})
           \cup {NoiseEdge}
SeedEdges == {NoiseEdge, RandToNoiseEdge, RandToRangeEdge,
              RangeToIterateEdge, IterateToNoiseEdge}

C2_NoDanglingEdge ==
  pc = "done" /\ ~state.controlNetEnabled =>
    \A i \in EdgeIdx(result) :
      /\ result.edges[i].source.node_id \in NodeIds(result)
      /\ result.edges[i].destination.node_id \in NodeIds(result)

C2_Witness ==
  /\ pc = "done" /\ ~state.controlNetEnabled
  /\ fired = <<"multiExplicit">>
  /\ Len(result.edges) = 6
  /\ HasEdge(result, IterateToNoiseEdge)

C5_MultiIterationRows ==
  pc = "done" /\ state.iterations > 1 =>
    /\ {RANGE_OF_SIZE, ITERATE, NOISE} \subseteq NodeIds(BaseGraph)
    /\ BaseGraph.nodes[RANGE_OF_SIZE].type = "range_of_size"
    /\ BaseGraph.nodes[RANGE_OF_SIZE].size = state.iterations
    /\ BaseGraph.nodes[ITERATE].type = "iterate"
    /\ HasEdge(BaseGraph, RangeToIterateEdge)
    /\ HasEdge(BaseGraph, IterateToNoiseEdge)
    /\ ~HasField(BaseGraph, NOISE, "seed")
    /\ IF ~state.shouldRandomizeSeed
         THEN /\ HasField(BaseGraph, RANGE_OF_SIZE, "start")
              /\ BaseGraph.nodes[RANGE_OF_SIZE].start = state.seed
              /\ RANDOM_INT \notin NodeIds(BaseGraph)
         ELSE /\ ~HasField(BaseGraph, RANGE_OF_SIZE, "start")
              /\ RANDOM_INT \in NodeIds(BaseGraph)
              /\ HasEdge(BaseGraph, RandToRangeEdge)

C5_Witness ==
  /\ pc = "done"
  /\ state.iterations = 3 /\ state.shouldRandomizeSeed
  /\ fired = <<"multiRandom">>
  /\ BaseGraph.nodes[RANGE_OF_SIZE].size = 3

\* C6: the four fixed nodes are present in every returned graph, and its
\* first three edges are, in this order, positive conditioning -> t2l,
\* negative conditioning -> t2l, t2l latents -> l2i, each occurring once.
C6_FixedPipeline ==
  pc = "done" =>
    /\ FixedIds \subseteq NodeIds(result)
    /\ result.nodes[POSITIVE_CONDITIONING] = positiveConditioningNode(state)
    /\ result.nodes[NEGATIVE_CONDITIONING] = negativeConditioningNode(state)
    /\ result.nodes[TEXT_TO_LATENTS] = textToLatentsNode(state)
    /\ result.nodes[LATENTS_TO_IMAGE] = latentsToImageNode(state)
    /\ Len(result.edges) >= 3
    /\ SubSeq(result.edges, 1, 3) = <<PosEdge, NegEdge, LatentsEdge>>
    /\ CountEdge(result, PosEdge) = 1
    /\ CountEdge(result, NegEdge) = 1
    /\ CountEdge(result, LatentsEdge) = 1

C6_Witness ==
  /\ pc = "done"
  /\ fired = <<"singleRandom">>
  /\ state.controlNetEnabled
  /\ Len(result.edges) = 6
  /\ result.edges[2] = NegEdge

C8_ExtenderLast ==
  /\ Len(calls) <= 1
  /\ calls # <<>> => pc \in {"return", "done"}
  /\ pc = "done" =>
       /\ Len(calls) = 1
       /\ calls[1].baseNodeId = TEXT_TO_LATENTS
       /\ calls[1].state = state
       /\ calls[1].writes = writes
       /\ NodeIds(BaseGraph) = {writes[i] : i \in 1..Len(writes)}
       /\ FixedIds \subseteq NodeIds(BaseGraph)
       /\ \A i \in 1..Len(fired) : HasEdge(BaseGraph, NoiseEdge)
       /\ result = addControlNetToLinearGraph(BaseGraph, TEXT_TO_LATENTS, state)
       /\ ~state.controlNetEnabled => result = BaseGraph
       /\ \A k \in NodeIds(BaseGraph) :
            k \in NodeIds(result) /\ result.nodes[k] = BaseGraph.nodes[k]
       /\ Len(result.edges) >= Len(BaseGraph.edges)
       /\ SubSeq(result.edges, 1, Len(BaseGraph.edges)) = BaseGraph.edges

C8_Witness ==
  /\ pc = "done"
  /\ state.controlNetEnabled
  /\ fired = <<"multiRandom">>
  /\ Len(result.edges) = Len(BaseGraph.edges) + 1
  /\ result.edges[Len(result.edges)].destination.node_id = TEXT_TO_LATENTS

\* C9: a call with the same configuration as the call before it returns a
\* graph equal to the one that call returned (node ids, node parameters and
\* edge sequence), nothing of the earlier call's graph is carried over, and
\* the rand_int node carries no seed value made at assembly time.
C9_Deterministic ==
  /\ pc = "fixed" => graph.nodes = NoNodes /\ graph.edges = <<>>
  /\ pc = "done" =>
       /\ prev # <<>> => result = prev[1]
       /\ RANDOM_INT \in NodeIds(result) =>
            DOMAIN result.nodes[RANDOM_INT] = {"id", "type"}

C9_Witness ==
  /\ pc = "done"
  /\ prev # <<>>
  /\ state.shouldRandomizeSeed /\ state.iterations = 2
  /\ RANDOM_INT \in NodeIds(result)
  /\ Len(prev[1].edges) = 7

\* C10: in the graph the builder makes, the seed of the noise node is given
\* either as a literal or by exactly one incoming edge, never both and never
\* neither; the same holds for the start of a range_of_size node.
C10_SeedSuppliedOnce ==
  pc = "done" =>
    /\ NOISE \in NodeIds(BaseGraph) =>
         IF HasField(BaseGraph, NOISE, "seed")
           THEN InDegree(BaseGraph, NOISE, "seed") = 0
           ELSE InDegree(BaseGraph, NOISE, "seed") = 1
    /\ RANGE_OF_SIZE \in NodeIds(BaseGraph) =>
         IF HasField(BaseGraph, RANGE_OF_SIZE, "start")
           THEN InDegree(BaseGraph, RANGE_OF_SIZE, "start") = 0
           ELSE InDegree(BaseGraph, RANGE_OF_SIZE, "start") = 1

C10_Witness ==
  /\ pc = "done"
  /\ fired = <<"singleRandom">>
  /\ ~HasField(BaseGraph, NOISE, "seed")
  /\ InDegree(BaseGraph, NOISE, "seed") = 1

====
